---------------------------- MODULE Spec2Model ----------------------------
(***************************************************************************)
(* A model of the p5-tool-uploader worker (src/src/index.ts) and of its    *)
(* single-endpoint variant (src/unnamed/part_000).                         *)
(*                                                                         *)
(* Strings are sequences of one-character strings, so that concatenation,  *)
(* truncation and the regular-expression rewrites of sanitizeString are    *)
(* computed on the characters.                                             *)
(***************************************************************************)
EXTENDS Integers, Sequences, FiniteSets, TLC

VARIABLES
    worker,        \* which source file is deployed: "index" or "single"
    manifestFile,  \* the store's {slug}/manifest.json: absent, or content + sha
    files,         \* the payload paths present in the store (relative to slug)
    clock,         \* the last value new Date() returned
    pc,            \* per request: the store call it is waiting on
    request,       \* per request: the HTTP request received
    local,         \* per request: the local variables of its handler
    response,      \* per request: the Response returned
    log,           \* per request: what it has done (form parse, store calls)
    probe          \* the argument and results of a sanitizeString evaluation

vars == <<worker, manifestFile, files, clock, pc, request, local, response, log, probe>>

----------------------------------------------------------------------------
(* Bounds *)

\* number of requests in flight
NumReq == 2

\* longest input string given to sanitizeString in SpecSanitize
MaxLen == 4

----------------------------------------------------------------------------
(* Characters *)

UpperCase == <<"A","B","C","D","E","F","G","H","I","J","K","L","M",
               "N","O","P","Q","R","S","T","U","V","W","X","Y","Z">>

LowerCase == <<"a","b","c","d","e","f","g","h","i","j","k","l","m",
               "n","o","p","q","r","s","t","u","v","w","x","y","z">>

Digits == <<"0","1","2","3","4","5","6","7","8","9">>

Range(f) == {f[i] : i \in DOMAIN f}

\* the class [a-z0-9] of the regular expression in sanitizeString
IsAlnum(c) == c \in Range(LowerCase) \cup Range(Digits)

\* String.prototype.toLowerCase on one character
LowerChar(c) ==
    IF c \in Range(UpperCase)
    THEN LowerCase[CHOOSE i \in DOMAIN UpperCase : UpperCase[i] = c]
    ELSE c

toLowerCase(s) == [i \in 1..Len(s) |-> LowerChar(s[i])]

Min(a, b) == IF a <= b THEN a ELSE b

\* s.substring(0, n) for n >= 0
substring(s, n) == SubSeq(s, 1, Min(n, Len(s)))

----------------------------------------------------------------------------
(* sanitizeString *)

\* a mutant: /[^a-z0-9]/g, every character replaced on its own
RECURSIVE ReplaceEachNonAlnum(_)
ReplaceEachNonAlnum(s) ==
    IF s = <<>> THEN <<>>
    ELSE <<IF IsAlnum(Head(s)) THEN Head(s) ELSE "-">> \o ReplaceEachNonAlnum(Tail(s))

\* the rest of s after its leading run of characters outside [a-z0-9]
RECURSIVE SkipNonAlnum(_)
SkipNonAlnum(s) ==
    IF s = <<>> \/ IsAlnum(Head(s)) THEN s ELSE SkipNonAlnum(Tail(s))

\* .replace(/[^a-z0-9]+/g, '-'): every maximal run becomes one hyphen
RECURSIVE ReplaceRunsRec(_)
ReplaceRunsRec(s) ==
    IF s = <<>> THEN <<>>
    ELSE IF IsAlnum(Head(s)) THEN <<Head(s)>> \o ReplaceRunsRec(Tail(s))
    ELSE <<"-">> \o ReplaceRunsRec(SkipNonAlnum(s))

ReplaceNonAlnumRuns(s) == ReplaceRunsRec(s)

RECURSIVE StripLeadingHyphens(_)
StripLeadingHyphens(s) ==
    IF s # <<>> /\ Head(s) = "-" THEN StripLeadingHyphens(Tail(s)) ELSE s

RECURSIVE StripTrailingHyphens(_)
StripTrailingHyphens(s) ==
    IF s # <<>> /\ s[Len(s)] = "-"
    THEN StripTrailingHyphens(SubSeq(s, 1, Len(s) - 1))
    ELSE s

\* a mutant: /-+$/g, only the hyphens at the end are removed
TrimTrailingHyphens(s) == StripTrailingHyphens(s)

\* .replace(/^-+|-+$/g, '')
TrimHyphens(s) == StripTrailingHyphens(StripLeadingHyphens(s))

sanitizeString(str, maxLength) ==
    substring(TrimHyphens(ReplaceNonAlnumRuns(toLowerCase(str))), maxLength)

----------------------------------------------------------------------------
(* SpecSanitize: sanitizeString applied to every bounded input, then to    *)
(* its own result                                                          *)

\* characters of the inputs: a lowercase letter, an uppercase letter, a
\* digit, a hyphen and two characters outside [a-z0-9-]
SanChars == {"a", "B", "7", "-", " ", "."}

RECURSIVE StringsUpTo(_, _)
StringsUpTo(chars, n) ==
    IF n = 0 THEN {<<>>}
    ELSE LET shorter == StringsUpTo(chars, n - 1)
         IN  shorter \cup {Append(s, c) : s \in {t \in shorter : Len(t) = n - 1}, c \in chars}

NoProbe == [stage |-> "none", str |-> <<>>, maxLength |-> 0, once |-> <<>>, twice |-> <<>>]

HelloWorld == <<"H","e","l","l","o"," ","W","o","r","l","d","!","!">>

Underscores == <<"_","_","_">>

Abcdefghij == <<"a","b","c","d","e","f","g","h","i","j">>

\* three calls with longer arguments: a mixed-case phrase, a string with no
\* character of [a-z0-9], and a string longer than maxLength
SanitizeExamples ==
    {[str |-> HelloWorld, maxLength |-> 30],
     [str |-> Underscores, maxLength |-> 10],
     [str |-> Abcdefghij, maxLength |-> 5]}

----------------------------------------------------------------------------
(* Configuration (Env) and fixed strings *)

ALLOWED_ORIGIN == "https://gallery.example"

OtherOrigin == "https://evil.example"

galleryUrl == "https://OWNER.github.io/REPO/SLUG/"

ToolsDir == <<"t","o","o","l","s","/">>

OutputsDir == <<"o","u","t","p","u","t","s","/">>

DotJs == <<".","j","s">>

\* sanitizeString's maxLength for the nickname and for a file name
AuthorMaxLength == 20

FilenameMaxLength == 30

RandomLength == 6

----------------------------------------------------------------------------
(* Values *)

\* an optional value: <<>> for undefined / null / absent, <<v>> for v
None == <<>>

Some(v) == <<v>>

\* what FormData.get returns: null, a string or a File
Null == [kind |-> "null"]

Text(s) == [kind |-> "text", value |-> s]

File(name, type) == [kind |-> "file", name |-> name, type |-> type]

formDataGet(fields, name) == IF name \in DOMAIN fields THEN fields[name] ELSE Null

endsWith(s, suffix) ==
    /\ Len(s) >= Len(suffix)
    /\ SubSeq(s, Len(s) - Len(suffix) + 1, Len(s)) = suffix

IsSpace(c) == c = " "

RECURSIVE TrimStart(_)
TrimStart(s) == IF s # <<>> /\ IsSpace(Head(s)) THEN TrimStart(Tail(s)) ELSE s

RECURSIVE TrimEnd(_)
TrimEnd(s) ==
    IF s # <<>> /\ IsSpace(s[Len(s)]) THEN TrimEnd(SubSeq(s, 1, Len(s) - 1)) ELSE s

\* String.prototype.trim
trim(s) == TrimEnd(TrimStart(s))

\* toolFile.name.replace(/\.js$/, '')
StripDotJs(name) ==
    IF endsWith(name, DotJs) THEN SubSeq(name, 1, Len(name) - Len(DotJs)) ELSE name

\* outputFile.name.replace(/\.[^/.]+$/, ''): the last dot and what follows it,
\* when what follows is not empty and holds no slash
StripExtension(name) ==
    LET dots == {i \in 1..Len(name) : name[i] = "."}
    IN  IF dots = {} THEN name
        ELSE LET last == CHOOSE i \in dots : \A j \in dots : j <= i
             IN  IF last < Len(name) /\ \A j \in (last + 1)..Len(name) : name[j] # "/"
                 THEN SubSeq(name, 1, last - 1)
                 ELSE name

----------------------------------------------------------------------------
(* generateRandomString *)

Chars36 == LowerCase \o Digits

\* the values of Math.floor(Math.random() * chars.length) + 1 the model draws;
\* one call draws the same index for each of its characters
RandomDraws == {1, 36}

generateRandomString(length) == {[i \in 1..length |-> Chars36[k]] : k \in RandomDraws}

----------------------------------------------------------------------------
(* Validation: uploadInputSchema and uploadOutputSchema (zod) *)

\* z.string().min(1, message).trim(): the type check, then the length check
\* on the value as given, then the trim of the value that passed
StringMin1Issues(field, v, message) ==
    IF v.kind # "text" THEN <<[path |-> field, message |-> "Invalid input: expected string"]>>
    ELSE IF Len(v.value) < 1 THEN <<[path |-> field, message |-> message]>>
    ELSE <<>>

\* a mutant: only the first failing field is reported
FirstIssueOnly(issues) == IF issues = <<>> THEN <<>> ELSE <<Head(issues)>>

AllIssues(issues) == issues

\* z.instanceof(File, ...).refine(file => file.name.endsWith('.js'), ...)
ToolFileIssues(v) ==
    IF v.kind # "file" THEN <<[path |-> "toolFile", message |-> "A JavaScript file is required"]>>
    ELSE IF ~endsWith(v.name, DotJs)
    THEN <<[path |-> "toolFile", message |-> "File must be a JavaScript file (.js)"]>>
    ELSE <<>>

ImageTypes == {"image/png", "image/jpeg", "image/webp", "image/gif"}

\* z.instanceof(File, ...).refine(file => [...].includes(file.type), ...)
OutputFileIssues(v) ==
    IF v.kind # "file" THEN <<[path |-> "outputFile", message |-> "An image file is required"]>>
    ELSE IF v.type \notin ImageTypes
    THEN <<[path |-> "outputFile", message |-> "File must be an image (PNG, JPEG, WebP, or GIF)"]>>
    ELSE <<>>

\* uploadInputSchema.safeParse(formFields).error.issues, in the schema's order
uploadInputSchemaIssues(f) ==
    AllIssues(
        StringMin1Issues("toolName", f.toolName, "Tool name is required")
     \o StringMin1Issues("toolDescription", f.toolDescription, "Description is required")
     \o StringMin1Issues("nickname", f.nickname, "Nickname is required")
     \o StringMin1Issues("modelUsed", f.modelUsed, "Model used is required")
     \o ToolFileIssues(f.toolFile))

\* validation.data of uploadInputSchema: the strings trimmed
uploadInputSchemaData(f) ==
    [toolName |-> trim(f.toolName.value),
     toolDescription |-> trim(f.toolDescription.value),
     nickname |-> trim(f.nickname.value),
     modelUsed |-> trim(f.modelUsed.value),
     toolFile |-> f.toolFile]

\* uploadOutputSchema.safeParse(formFields).error.issues; toolId is not trimmed
uploadOutputSchemaIssues(f) ==
    AllIssues(
        StringMin1Issues("toolId", f.toolId, "Tool ID is required")
     \o OutputFileIssues(f.outputFile))

mimeToExt(type) ==
    CASE type = "image/png" -> <<"p","n","g">>
      [] type = "image/jpeg" -> <<"j","p","g">>
      [] type = "image/webp" -> <<"w","e","b","p">>
      [] type = "image/gif" -> <<"g","i","f">>

----------------------------------------------------------------------------
(* Responses *)

corsHeaders ==
    {<<"Access-Control-Allow-Origin", ALLOWED_ORIGIN>>,
     <<"Access-Control-Allow-Methods", "POST, OPTIONS">>,
     <<"Access-Control-Allow-Headers", "Content-Type">>}

JsonContentType == <<"Content-Type", "application/json">>

\* a mutant: the CORS headers are left out of a JSON response
jsonResponseNoCors(data, status, headers) ==
    [status |-> status, body |-> Some(data), headers |-> {JsonContentType}]

\* new Response(JSON.stringify(data), {status, headers: {'Content-Type': ..., ...headers}})
jsonResponse(data, status, headers) ==
    [status |-> status, body |-> Some(data), headers |-> {JsonContentType} \cup headers]

\* new Response(null, {status: 204, headers: corsHeaders})
preflightResponse == [status |-> 204, body |-> None, headers |-> corsHeaders]

GeneralError(message) == [success |-> FALSE, message |-> message]

ValidationError(issues) == [success |-> FALSE, issues |-> issues]

Success(filename) == [success |-> TRUE, filename |-> filename, galleryUrl |-> galleryUrl]

InternalErrorMessage == "Internal server error. Please try again."

internalError == jsonResponse(GeneralError(InternalErrorMessage), 500, corsHeaders)

----------------------------------------------------------------------------
(* The content store (GitHub contents API), as the worker uses it *)

\* the blob sha of a file: a collision-free hash of its content, modelled by
\* the content
Sha(content) == content

NoFile == None

StoredFile(content) == Some([content |-> content, sha |-> Sha(content)])

\* GET contents/{path}: the status the store answers with
StoreGetStatus(file, fault) ==
    IF fault THEN 500 ELSE IF file = NoFile THEN 404 ELSE 200

\* a mutant: the store accepts a write whatever sha it carries
StorePutStatusUnchecked(file, sha, fault) ==
    IF fault THEN 500 ELSE IF file = NoFile THEN 201 ELSE 200

\* PUT contents/{path} with an optional sha: created (201) when the file is
\* absent and no sha is given, updated (200) when the sha is the file's,
\* 422 when the file exists and no sha is given (or a sha for no file), 409
\* when the sha is not the file's
StorePutStatus(file, sha, fault) ==
    IF fault THEN 500
    ELSE IF file = NoFile THEN (IF sha = None THEN 201 ELSE 422)
    ELSE IF sha = None THEN 422
    ELSE IF sha[1] = file[1].sha THEN 200
    ELSE 409

ResponseOk(status) == status \in 200..299

\* JSON.parse(base64Decode(file.content)) of a manifest written as
\* base64Encode(JSON.stringify(manifest, null, 2)): an object is a function
\* from its keys, an array a sequence
EmptyManifest == [tools |-> <<>>, outputs |-> <<>>]

HasKey(object, key) == key \in DOMAIN object

SetKey(object, key, value) ==
    [k \in DOMAIN object \cup {key} |-> IF k = key THEN value ELSE object[k]]

\* a mutant: array.push(entry)
push(array, entry) == array \o <<entry>>

\* a mutant: the entry is added twice
unshiftTwice(array, entry) == <<entry, entry>> \o array

\* array.unshift(entry)
unshift(array, entry) == <<entry>> \o array

ToolsOf(manifest) == IF HasKey(manifest, "tools") THEN manifest.tools ELSE <<>>

OutputsOf(manifest) == IF HasKey(manifest, "outputs") THEN manifest.outputs ELSE <<>>


----------------------------------------------------------------------------
(* Requests *)

Reqs == 1..NumReq

\* request.headers.get('Origin') || ''
OriginOf(q) == IF q.origin = None THEN "" ELSE q.origin[1]

\* an event of a request's log: request.formData(), or a store call with the
\* status the store answered
Event(call, status) == [call |-> call, status |-> status]

Logged(r, call, status) == log' = [log EXCEPT ![r] = Append(@, Event(call, status))]

\* the handler returns resp
Return(r, resp) ==
    /\ pc' = [pc EXCEPT ![r] = "done"]
    /\ response' = [response EXCEPT ![r] = Some(resp)]

\* the handler awaits the store call named by label
Await(r, label) ==
    /\ pc' = [pc EXCEPT ![r] = label]
    /\ UNCHANGED response

\* new Date(): every reading is later than the one before
Now == {clock + 1}

\* the payload file at a path; its content is not modelled
PayloadFile(path) == IF path \in files THEN StoredFile(path) ELSE NoFile

\* a mutant: find(t => t.id = toolId), true of the first tool
findFirstTool(manifest, toolId) ==
    IF ToolsOf(manifest) = <<>> THEN None ELSE Some(ToolsOf(manifest)[1])

\* manifest.tools?.find(t => t.id === toolId)
findTool(manifest, toolId) ==
    LET tools == ToolsOf(manifest)
        hits == {i \in 1..Len(tools) : tools[i].id = toolId}
    IN  IF hits = {} THEN None
        ELSE Some(tools[CHOOSE i \in hits : \A j \in hits : i <= j])

----------------------------------------------------------------------------
(* handleToolUpload *)

\* lines 103-140: parse and validate the form, derive the file name
handleToolUpload(r, q) ==
    IF ~q.body.ok
    THEN \* request.formData() throws
         /\ Logged(r, "formData", 0)
         /\ Return(r, internalError)
         /\ UNCHANGED local
    ELSE LET formFields == [toolName |-> formDataGet(q.body.fields, "toolName"),
                            toolDescription |-> formDataGet(q.body.fields, "toolDescription"),
                            nickname |-> formDataGet(q.body.fields, "nickname"),
                            modelUsed |-> formDataGet(q.body.fields, "modelUsed"),
                            toolFile |-> formDataGet(q.body.fields, "toolFile")]
             issues == uploadInputSchemaIssues(formFields)
         IN  /\ Logged(r, "formData", 0)
             /\ IF issues # <<>>
                THEN /\ Return(r, jsonResponse(ValidationError(issues), 400, corsHeaders))
                     /\ UNCHANGED local
                ELSE LET data == uploadInputSchemaData(formFields)
                         sanitizedAuthor == sanitizeString(data.nickname, AuthorMaxLength)
                         originalFilename == StripDotJs(data.toolFile.name)
                         sanitizedFilename == sanitizeString(originalFilename, FilenameMaxLength)
                     IN  \E randomString \in generateRandomString(RandomLength) :
                            LET id == sanitizedAuthor \o <<"-">> \o sanitizedFilename
                                        \o <<"-">> \o randomString
                            IN  /\ local' = [local EXCEPT ![r] =
                                        [data |-> data, id |-> id,
                                         finalFilename |-> id \o DotJs]]
                                /\ Await(r, "uploadToGitHub")

\* a mutant: the payload PUT carries the sha of the file at the path when
\* there is one, so it overwrites instead of failing
uploadToGitHubOverwrite(r) ==
    /\ pc[r] = "uploadToGitHub"
    /\ \E fault \in BOOLEAN :
        LET path == ToolsDir \o local[r].finalFilename
            sha == IF path \in files THEN Some(Sha(path)) ELSE None
            status == StorePutStatus(PayloadFile(path), sha, fault)
        IN  /\ Logged(r, "putFile", status)
            /\ IF ResponseOk(status)
               THEN /\ files' = files \cup {path}
                    /\ \E now \in Now :
                        /\ clock' = now
                        /\ local' = [local EXCEPT ![r] = SetKey(@, "entry",
                              [id |-> local[r].id,
                               author |-> local[r].data.nickname,
                               name |-> local[r].data.toolName,
                               description |-> local[r].data.toolDescription,
                               model |-> local[r].data.modelUsed,
                               url |-> ToolsDir \o local[r].finalFilename,
                               uploadedAt |-> now])]
                    /\ Await(r, IF worker = "index" THEN "updateManifestWithTool_get"
                                                     ELSE "updateManifest_get")
               ELSE /\ Return(r, internalError)
                    /\ UNCHANGED <<files, clock, local>>
    /\ UNCHANGED <<worker, manifestFile, request, probe>>

\* a mutant: the status of the payload PUT is not looked at
uploadToGitHubUnchecked(r) ==
    /\ pc[r] = "uploadToGitHub"
    /\ \E fault \in BOOLEAN :
        LET path == ToolsDir \o local[r].finalFilename
            status == StorePutStatus(PayloadFile(path), None, fault)
        IN  /\ Logged(r, "putFile", status)
            /\ files' = IF ResponseOk(status) THEN files \cup {path} ELSE files
            /\ \E now \in Now :
                /\ clock' = now
                /\ local' = [local EXCEPT ![r] = SetKey(@, "entry",
                      [id |-> local[r].id,
                       author |-> local[r].data.nickname,
                       name |-> local[r].data.toolName,
                       description |-> local[r].data.toolDescription,
                       model |-> local[r].data.modelUsed,
                       url |-> ToolsDir \o local[r].finalFilename,
                       uploadedAt |-> now])]
            /\ Await(r, IF worker = "index" THEN "updateManifestWithTool_get"
                                             ELSE "updateManifest_get")
    /\ UNCHANGED <<worker, manifestFile, request, probe>>

\* lines 142-162: the payload PUT, and on success the manifest entry
uploadToGitHub(r) ==
    /\ pc[r] = "uploadToGitHub"
    /\ \E fault \in BOOLEAN :
        LET path == ToolsDir \o local[r].finalFilename
            status == StorePutStatus(PayloadFile(path), None, fault)
        IN  /\ Logged(r, "putFile", status)
            /\ IF ResponseOk(status)
               THEN /\ files' = files \cup {path}
                    /\ \E now \in Now :
                        /\ clock' = now
                        /\ local' = [local EXCEPT ![r] = SetKey(@, "entry",
                              [id |-> local[r].id,
                               author |-> local[r].data.nickname,
                               name |-> local[r].data.toolName,
                               description |-> local[r].data.toolDescription,
                               model |-> local[r].data.modelUsed,
                               url |-> ToolsDir \o local[r].finalFilename,
                               uploadedAt |-> now])]
                    /\ Await(r, IF worker = "index" THEN "updateManifestWithTool_get"
                                                     ELSE "updateManifest_get")
               ELSE /\ Return(r, internalError)
                    /\ UNCHANGED <<files, clock, local>>
    /\ UNCHANGED <<worker, manifestFile, request, probe>>

\* a mutant: the file's content is not decoded, the manifest written is a new
\* one with the entry alone
ReadAndReplace(r, key, absent, ensure, next) ==
    \E fault \in BOOLEAN :
        LET status == StoreGetStatus(manifestFile, fault)
            sha == IF status = 200 THEN Some(manifestFile[1].sha) ELSE None
        IN  /\ Logged(r, "getManifest", status)
            /\ IF status \notin {200, 404}
               THEN /\ Return(r, internalError)
                    /\ UNCHANGED local
               ELSE /\ local' = [local EXCEPT ![r] =
                          SetKey(SetKey(@, "sha", sha), "manifest",
                                 [EmptyManifest EXCEPT ![key] = unshift(@, local[r].entry)])]
                    /\ Await(r, next)

\* a mutant: getFromGitHub throws on every status that is not ok, 404 too
ReadAndAddStrict(r, key, absent, ensure, next) ==
    \E fault \in BOOLEAN :
        LET status == StoreGetStatus(manifestFile, fault)
        IN  /\ Logged(r, "getManifest", status)
            /\ IF status # 200
               THEN /\ Return(r, internalError)
                    /\ UNCHANGED local
               ELSE /\ local' = [local EXCEPT ![r] =
                          SetKey(SetKey(@, "sha", Some(manifestFile[1].sha)), "manifest",
                                 [(IF ensure /\ ~HasKey(manifestFile[1].content, key)
                                   THEN SetKey(manifestFile[1].content, key, <<>>)
                                   ELSE manifestFile[1].content)
                                  EXCEPT ![key] = unshift(@, local[r].entry)])]
                    /\ Await(r, next)

\* getFromGitHub and lines 413-435: the manifest read, and the entry added to
\* the array named key in memory; absent is what a missing manifest file is
\* read as, and ensure says whether a missing array is created
ReadAndAdd(r, key, absent, ensure, next) ==
    \E fault \in BOOLEAN :
        LET status == StoreGetStatus(manifestFile, fault)
            parsed == IF status = 200 THEN manifestFile[1].content ELSE absent
            sha == IF status = 200 THEN Some(manifestFile[1].sha) ELSE None
            manifest == IF ensure /\ ~HasKey(parsed, key) THEN SetKey(parsed, key, <<>>)
                        ELSE parsed
        IN  /\ Logged(r, "getManifest", status)
            /\ IF status \notin {200, 404} \/ ~HasKey(manifest, key)
               THEN \* getFromGitHub throws, or undefined.unshift throws
                    /\ Return(r, internalError)
                    /\ UNCHANGED local
               ELSE /\ local' = [local EXCEPT ![r] =
                          SetKey(SetKey(@, "sha", sha), "manifest",
                                 [manifest EXCEPT ![key] = unshift(@, local[r].entry)])]
                    /\ Await(r, next)

\* a mutant: the PUT carries the sha the file has now, not the sha read
WriteBackForce(r) ==
    \E fault \in BOOLEAN :
        LET current == IF manifestFile = NoFile THEN None ELSE Some(manifestFile[1].sha)
            status == StorePutStatus(manifestFile, current, fault)
        IN  /\ Logged(r, "putManifest", status)
            /\ IF ResponseOk(status)
               THEN /\ manifestFile' = StoredFile(local[r].manifest)
                    /\ Return(r, jsonResponse(Success(local[r].finalFilename), 200, corsHeaders))
               ELSE /\ Return(r, internalError)
                    /\ UNCHANGED manifestFile

\* a mutant: the test of response.ok is inverted, an accepted write throws
WriteBackInverted(r) ==
    \E fault \in BOOLEAN :
        LET status == StorePutStatus(manifestFile, local[r].sha, fault)
        IN  /\ Logged(r, "putManifest", status)
            /\ IF ResponseOk(status)
               THEN /\ manifestFile' = StoredFile(local[r].manifest)
                    /\ Return(r, internalError)
               ELSE /\ Return(r, jsonResponse(Success(local[r].finalFilename), 200, corsHeaders))
                    /\ UNCHANGED manifestFile

\* lines 437-461: the manifest PUT with the sha read, and the success response
WriteBack(r) ==
    \E fault \in BOOLEAN :
        LET status == StorePutStatus(manifestFile, local[r].sha, fault)
        IN  /\ Logged(r, "putManifest", status)
            /\ IF ResponseOk(status)
               THEN /\ manifestFile' = StoredFile(local[r].manifest)
                    /\ Return(r, jsonResponse(Success(local[r].finalFilename), 200, corsHeaders))
               ELSE /\ Return(r, internalError)
                    /\ UNCHANGED manifestFile

\* a mutant: the test if (!manifest.tools) is left out
updateManifestWithTool_getNoEnsure(r) ==
    /\ pc[r] = "updateManifestWithTool_get"
    /\ ReadAndAdd(r, "tools", EmptyManifest, FALSE, "updateManifestWithTool_put")
    /\ UNCHANGED <<worker, manifestFile, files, clock, request, probe>>

updateManifestWithTool_get(r) ==
    /\ pc[r] = "updateManifestWithTool_get"
    /\ ReadAndAdd(r, "tools", EmptyManifest, TRUE, "updateManifestWithTool_put")
    /\ UNCHANGED <<worker, manifestFile, files, clock, request, probe>>

\* a mutant: a manifest write turned down with 409 is retried from the read
updateManifestWithTool_putRetry(r) ==
    /\ pc[r] = "updateManifestWithTool_put"
    /\ \E fault \in BOOLEAN :
        LET status == StorePutStatus(manifestFile, local[r].sha, fault)
        IN  /\ Logged(r, "putManifest", status)
            /\ IF ResponseOk(status)
               THEN /\ manifestFile' = StoredFile(local[r].manifest)
                    /\ Return(r, jsonResponse(Success(local[r].finalFilename), 200, corsHeaders))
               ELSE IF status = 409
               THEN /\ Await(r, "updateManifestWithTool_get")
                    /\ UNCHANGED manifestFile
               ELSE /\ Return(r, internalError)
                    /\ UNCHANGED manifestFile
    /\ UNCHANGED <<worker, files, clock, request, local, probe>>

updateManifestWithTool_put(r) ==
    /\ pc[r] = "updateManifestWithTool_put"
    /\ WriteBack(r)
    /\ UNCHANGED <<worker, files, clock, request, local, probe>>

\* part_000, updateManifest: no outputs array in a new manifest, and no
\* check that the tools array exists
updateManifest_get(r) ==
    /\ pc[r] = "updateManifest_get"
    /\ ReadAndAdd(r, "tools", [tools |-> <<>>], FALSE, "updateManifest_put")
    /\ UNCHANGED <<worker, manifestFile, files, clock, request, probe>>

updateManifest_put(r) ==
    /\ pc[r] = "updateManifest_put"
    /\ WriteBack(r)
    /\ UNCHANGED <<worker, files, clock, request, local, probe>>

----------------------------------------------------------------------------
(* handleOutputUpload *)

\* lines 190-209: parse and validate the form
handleOutputUpload(r, q) ==
    IF ~q.body.ok
    THEN /\ Logged(r, "formData", 0)
         /\ Return(r, internalError)
         /\ UNCHANGED local
    ELSE LET formFields == [toolId |-> formDataGet(q.body.fields, "toolId"),
                            outputFile |-> formDataGet(q.body.fields, "outputFile")]
             issues == uploadOutputSchemaIssues(formFields)
         IN  /\ Logged(r, "formData", 0)
             /\ IF issues # <<>>
                THEN /\ Return(r, jsonResponse(ValidationError(issues), 400, corsHeaders))
                     /\ UNCHANGED local
                ELSE /\ local' = [local EXCEPT ![r] =
                            [toolId |-> formFields.toolId.value,
                             outputFile |-> formFields.outputFile]]
                     /\ Await(r, "handleOutputUpload_get")

\* lines 211-248: the manifest read that looks the tool up, and the file name
handleOutputUpload_get(r) ==
    /\ pc[r] = "handleOutputUpload_get"
    /\ \E fault \in BOOLEAN :
        LET status == StoreGetStatus(manifestFile, fault)
        IN  /\ Logged(r, "getManifest", status)
            /\ IF status = 404
               THEN /\ Return(r, jsonResponse(GeneralError("Manifest not found"), 404, corsHeaders))
                    /\ UNCHANGED local
               ELSE IF status # 200
               THEN /\ Return(r, internalError)
                    /\ UNCHANGED local
               ELSE LET tool == findTool(manifestFile[1].content, local[r].toolId)
                    IN  IF tool = None
                        THEN /\ Return(r, jsonResponse(GeneralError("Tool not found"), 404, corsHeaders))
                             /\ UNCHANGED local
                        ELSE \E randomString \in generateRandomString(RandomLength) :
                                LET baseFilename == StripExtension(local[r].outputFile.name)
                                    sanitizedFilename == sanitizeString(baseFilename, FilenameMaxLength)
                                    outputId == sanitizedFilename \o <<"-">> \o randomString
                                    fileExtension == mimeToExt(local[r].outputFile.type)
                                IN  /\ local' = [local EXCEPT ![r] =
                                          [toolId |-> local[r].toolId,
                                           currentManifest |-> manifestFile[1],
                                           tool |-> tool[1],
                                           id |-> outputId,
                                           finalFilename |-> outputId \o <<".">> \o fileExtension]]
                                    /\ Await(r, "uploadBinaryToGitHub")
    /\ UNCHANGED <<worker, manifestFile, files, clock, request, probe>>

\* lines 250-267: the payload PUT, and on success the manifest entry
uploadBinaryToGitHub(r) ==
    /\ pc[r] = "uploadBinaryToGitHub"
    /\ \E fault \in BOOLEAN :
        LET path == OutputsDir \o local[r].finalFilename
            status == StorePutStatus(PayloadFile(path), None, fault)
        IN  /\ Logged(r, "putFile", status)
            /\ IF ResponseOk(status)
               THEN /\ files' = files \cup {path}
                    /\ \E now \in Now :
                        /\ clock' = now
                        /\ local' = [local EXCEPT ![r] = SetKey(@, "entry",
                              [id |-> local[r].id,
                               toolId |-> local[r].toolId,
                               toolUrl |-> local[r].tool.url,
                               url |-> OutputsDir \o local[r].finalFilename,
                               createdAt |-> now])]
                    /\ Await(r, "updateManifestWithOutput_get")
               ELSE /\ Return(r, internalError)
                    /\ UNCHANGED <<files, clock, local>>
    /\ UNCHANGED <<worker, manifestFile, request, probe>>

\* a mutant: the manifest read by the tool lookup is used again, content and
\* sha, in place of a second read
updateManifestWithOutput_reuse(r) ==
    /\ pc[r] = "updateManifestWithOutput_get"
    /\ local' = [local EXCEPT ![r] =
          SetKey(SetKey(@, "sha", Some(local[r].currentManifest.sha)), "manifest",
                 [local[r].currentManifest.content EXCEPT
                    !["outputs"] = unshift(@, local[r].entry)])]
    /\ Await(r, "updateManifestWithOutput_put")
    /\ UNCHANGED <<worker, manifestFile, files, clock, request, log, probe>>

updateManifestWithOutput_get(r) ==
    /\ pc[r] = "updateManifestWithOutput_get"
    /\ ReadAndAdd(r, "outputs", EmptyManifest, TRUE, "updateManifestWithOutput_put")
    /\ UNCHANGED <<worker, manifestFile, files, clock, request, probe>>

updateManifestWithOutput_put(r) ==
    /\ pc[r] = "updateManifestWithOutput_put"
    /\ WriteBack(r)
    /\ UNCHANGED <<worker, files, clock, request, local, probe>>

----------------------------------------------------------------------------
(* fetch *)

\* a mutant: a path that is not /upload/output is taken as /upload/tool
RouteNoNotFound(r, q) ==
    IF q.path = "/upload/output" THEN handleOutputUpload(r, q) ELSE handleToolUpload(r, q)

\* index.ts lines 87-97: the route of a POST from the allowed origin
RouteByPath(r, q) ==
    IF q.path = "/upload/tool" THEN handleToolUpload(r, q)
    ELSE IF q.path = "/upload/output" THEN handleOutputUpload(r, q)
    ELSE /\ Return(r, jsonResponse(GeneralError("Not found"), 404, corsHeaders))
         /\ UNCHANGED <<local, log>>

\* part_000 lines 70-152: every POST from the allowed origin is a tool upload
RouteSingle(r, q) == handleToolUpload(r, q)

\* a mutant: the origin is not checked
GateNoOriginCheck(q) ==
    IF q.method = "OPTIONS" THEN Some(preflightResponse)
    ELSE IF q.method # "POST"
    THEN Some(jsonResponse(GeneralError("Method not allowed"), 405, corsHeaders))
    ELSE None

\* a mutant: the origin is checked before the method
GateOriginFirst(q) ==
    IF OriginOf(q) # ALLOWED_ORIGIN
    THEN Some(jsonResponse(GeneralError("Origin not allowed"), 403, corsHeaders))
    ELSE IF q.method = "OPTIONS" THEN Some(preflightResponse)
    ELSE IF q.method # "POST"
    THEN Some(jsonResponse(GeneralError("Method not allowed"), 405, corsHeaders))
    ELSE None

\* lines 65-85: the response of a request that is turned away, if it is
Gate(q) ==
    IF q.method = "OPTIONS" THEN Some(preflightResponse)
    ELSE IF q.method # "POST"
    THEN Some(jsonResponse(GeneralError("Method not allowed"), 405, corsHeaders))
    ELSE IF OriginOf(q) # ALLOWED_ORIGIN
    THEN Some(jsonResponse(GeneralError("Origin not allowed"), 403, corsHeaders))
    ELSE None

fetch(r, q) ==
    /\ pc[r] = "idle"
    /\ request' = [request EXCEPT ![r] = Some(q)]
    /\ IF Gate(q) # None
       THEN /\ Return(r, Gate(q)[1])
            /\ UNCHANGED <<local, log>>
       ELSE IF worker = "index" THEN RouteByPath(r, q) ELSE RouteSingle(r, q)
    /\ UNCHANGED <<worker, manifestFile, files, clock, probe>>


\* a request arrives: the runtime calls fetch with one of the requests given
Arrive(r, requests) ==
    /\ pc[r] = "idle"
    /\ \E q \in requests : fetch(r, q)

----------------------------------------------------------------------------
(* Inputs *)

Methods == {"OPTIONS", "POST", "PUT", "GET"}

\* the Origin header: none, the allowed origin, another origin
Origins == {None, Some(ALLOWED_ORIGIN), Some(OtherOrigin)}

Paths == {"/upload/tool", "/upload/output", "/other"}

\* a body request.formData() cannot parse
Malformed == [ok |-> FALSE]

Form(fields) == [ok |-> TRUE, fields |-> fields]

NickAB == <<"a","-","b">>

NickA == <<"A"," ">>

FileC == <<"c",".","j","s">>

FileBC == <<"b","-","c",".","j","s">>

JsType == "text/javascript"

\* a tool the manifest may hold at the start, with its payload file
SeedId == <<"a","-","b","-","c","-","a","a","a","a","a","a">>

SeedTool ==
    [id |-> SeedId, author |-> NickAB, name |-> <<"T">>, description |-> <<"d">>,
     model |-> <<"m">>, url |-> ToolsDir \o SeedId \o DotJs, uploadedAt |-> 0]

SeedManifest == [tools |-> <<SeedTool>>, outputs |-> <<>>]

\* a manifest with no tools array and a key the worker does not know
NoToolsManifest == [title |-> <<"g">>, outputs |-> <<>>]

UnknownId == <<"n","o">>

PicPng == <<"p",".","p","n","g">>

ToolFields(nickname, toolFile) ==
    [toolName |-> Text(<<"T">>), toolDescription |-> Text(<<"d">>),
     nickname |-> nickname, modelUsed |-> Text(<<"m">>), toolFile |-> toolFile]

\* Spec: two tool uploads whose ids differ only by the random string, an
\* invalid one, output uploads for a known and an unknown tool, and one
\* request for each way of being turned away
ConcToolBodies ==
    {Form(ToolFields(Text(NickAB), File(FileC, JsType))),
     Form(ToolFields(Text(NickA), File(FileBC, JsType))),
     Form(ToolFields(Text(<<>>), File(FileC, JsType)))}

ConcOutputBodies ==
    {Form([toolId |-> Text(SeedId), outputFile |-> File(PicPng, "image/png")]),
     Form([toolId |-> Text(SeedId), outputFile |-> File(PicPng, "image/gif")]),
     Form([toolId |-> Text(UnknownId), outputFile |-> File(PicPng, "image/png")])}

Req(method, origin, path, body) ==
    [method |-> method, origin |-> origin, path |-> path, body |-> body]

ConcRequests ==
    {Req("POST", Some(ALLOWED_ORIGIN), "/upload/tool", body) : body \in ConcToolBodies}
    \cup {Req("POST", Some(ALLOWED_ORIGIN), "/upload/output", body) : body \in ConcOutputBodies}
    \cup {Req("OPTIONS", None, "/upload/tool", Malformed),
          Req("PUT", Some(ALLOWED_ORIGIN), "/upload/tool", Malformed),
          Req("POST", Some(OtherOrigin), "/upload/tool", Malformed),
          Req("POST", Some(ALLOWED_ORIGIN), "/other", Malformed),
          Req("POST", Some(ALLOWED_ORIGIN), "/upload/output", Malformed)}

\* SpecGate: every combination of method, origin, path and body, the body
\* being any combination of the values below for the fields of one form
TextValues == {Null, Text(<<>>), Text(<<" ">>), Text(<<"A"," ">>)}

ToolFileValues ==
    {Null, Text(FileC), File(FileC, JsType), File(<<"c",".","t","s">>, JsType)}

OutputFileValues ==
    {Null, File(PicPng, "image/png"), File(<<"p",".","j","p","e","g">>, "image/jpeg"),
     File(<<"p",".","s","v","g">>, "image/svg+xml")}

GateBodies ==
    {Malformed, Form([other |-> Text(<<>>)])}
    \cup {Form([toolName |-> a, toolDescription |-> b, nickname |-> c,
                modelUsed |-> d, toolFile |-> f]) :
            a \in TextValues, b \in {Text(<<>>), Text(<<"d">>)}, c \in TextValues,
            d \in {Null, Text(<<"m">>)}, f \in ToolFileValues}
    \cup {Form([toolId |-> t, outputFile |-> f]) :
            t \in {Null, Text(<<>>), Text(SeedId), Text(UnknownId)},
            f \in OutputFileValues}

GateRequests ==
    {Req(method, origin, path, body) :
        method \in Methods, origin \in Origins, path \in Paths, body \in GateBodies}

----------------------------------------------------------------------------
(* Specifications *)

NoLocal == [id |-> <<>>]

\* the payload paths the entries of a stored manifest refer to
PayloadsOf(file) ==
    IF file = NoFile THEN {}
    ELSE {ToolsOf(file[1].content)[i].url : i \in 1..Len(ToolsOf(file[1].content))}
         \cup {OutputsOf(file[1].content)[i].url : i \in 1..Len(OutputsOf(file[1].content))}

InitRequests ==
    /\ clock = 0
    /\ pc = [r \in Reqs |-> "idle"]
    /\ request = [r \in Reqs |-> None]
    /\ local = [r \in Reqs |-> NoLocal]
    /\ response = [r \in Reqs |-> None]
    /\ log = [r \in Reqs |-> <<>>]

\* Spec: index.ts, the requests in flight together
Init ==
    /\ worker = "index"
    /\ manifestFile \in {NoFile, StoredFile(EmptyManifest), StoredFile(SeedManifest)}
    /\ files = PayloadsOf(manifestFile)
    /\ InitRequests
    /\ probe = NoProbe

Step(r) ==
    \/ uploadToGitHub(r)
    \/ updateManifestWithTool_get(r)
    \/ updateManifestWithTool_put(r)
    \/ updateManifest_get(r)
    \/ updateManifest_put(r)
    \/ handleOutputUpload_get(r)
    \/ uploadBinaryToGitHub(r)
    \/ updateManifestWithOutput_get(r)
    \/ updateManifestWithOutput_put(r)

Next ==
    \E r \in Reqs :
        \/ Arrive(r, ConcRequests)
        \/ uploadToGitHub(r)
        \/ updateManifestWithTool_get(r)
        \/ updateManifestWithTool_put(r)
        \/ handleOutputUpload_get(r)
        \/ uploadBinaryToGitHub(r)
        \/ updateManifestWithOutput_get(r)
        \/ updateManifestWithOutput_put(r)

Spec == Init /\ [][Next]_vars

\* the store call the request is waiting on returns, and its handler resumes
StoreCallReturns(r) ==
    \/ uploadToGitHub(r)
    \/ updateManifestWithTool_get(r)
    \/ updateManifestWithTool_put(r)
    \/ handleOutputUpload_get(r)
    \/ uploadBinaryToGitHub(r)
    \/ updateManifestWithOutput_get(r)
    \/ updateManifestWithOutput_put(r)

\* SpecLive: Spec, where every store call a request awaits returns in the end
SpecLive == Init /\ [][Next]_vars /\ \A r \in Reqs : WF_vars(StoreCallReturns(r))

\* SpecGate: either worker, one request, every input
InitGate ==
    /\ worker \in {"index", "single"}
    /\ manifestFile \in {NoFile, StoredFile(EmptyManifest), StoredFile(SeedManifest),
                         StoredFile([outputs |-> <<>>]), StoredFile(NoToolsManifest)}
    /\ files = PayloadsOf(manifestFile)
    /\ InitRequests
    /\ probe = NoProbe

NextGate ==
    \/ Arrive(1, GateRequests)
    \/ Step(1)

SpecGate == InitGate /\ [][NextGate]_vars

\* SpecSanitize: sanitizeString on every string of at most MaxLen characters
InitSanitize ==
    /\ worker = "index"
    /\ manifestFile = NoFile
    /\ files = {}
    /\ InitRequests
    /\ probe \in {[stage |-> "input", str |-> s, maxLength |-> n, once |-> <<>>, twice |-> <<>>] :
                    s \in StringsUpTo(SanChars, MaxLen), n \in 0..(MaxLen + 1)}
                 \cup {[stage |-> "input", str |-> e.str, maxLength |-> e.maxLength,
                        once |-> <<>>, twice |-> <<>>] : e \in SanitizeExamples}

SanitizeOnce ==
    /\ probe.stage = "input"
    /\ probe' = [probe EXCEPT !.stage = "once",
                              !.once = sanitizeString(probe.str, probe.maxLength)]
    /\ UNCHANGED <<worker, manifestFile, files, clock, pc, request, local, response, log>>

SanitizeTwice ==
    /\ probe.stage = "once"
    /\ probe' = [probe EXCEPT !.stage = "twice",
                              !.twice = sanitizeString(probe.once, probe.maxLength)]
    /\ UNCHANGED <<worker, manifestFile, files, clock, pc, request, local, response, log>>

NextSanitize == SanitizeOnce \/ SanitizeTwice

SpecSanitize == InitSanitize /\ [][NextSanitize]_vars


----------------------------------------------------------------------------
(* Claims about sanitizeString (SpecSanitize) *)

EndsWithHyphen(s) == s # <<>> /\ s[Len(s)] = "-"

\* C10 as stated: sanitize is idempotent for a fixed length bound,
\* sanitize(sanitize(s, n), n) = sanitize(s, n) for every s and every n >= 0
C10_Idempotent ==
    probe.stage = "twice" => probe.twice = probe.once

\* C10 as amended: sanitize(sanitize(s, n), n) is sanitize(s, n) without the
\* one trailing hyphen that the truncation can leave, so the two are equal
\* exactly when sanitize(s, n) does not end with a hyphen
C10_IdempotentUpToTrailingHyphen ==
    probe.stage = "twice" =>
        /\ probe.twice = IF EndsWithHyphen(probe.once)
                         THEN SubSeq(probe.once, 1, Len(probe.once) - 1)
                         ELSE probe.once
        /\ (probe.twice = probe.once) <=> ~EndsWithHyphen(probe.once)

\* sanitize was applied twice to an input whose truncation ends with a hyphen
C10_Witness ==
    /\ probe.stage = "twice"
    /\ probe.str = <<"a", "-", "B">>
    /\ probe.maxLength = 2
    /\ probe.once = <<"a", "-">>
    /\ probe.twice = <<"a">>


\* the leading run of characters of [a-z0-9] of s
RECURSIVE LeadingWord(_)
LeadingWord(s) ==
    IF s = <<>> \/ ~IsAlnum(Head(s)) THEN <<>> ELSE <<Head(s)>> \o LeadingWord(Tail(s))

\* the maximal runs of characters of [a-z0-9] of s, in order
RECURSIVE Words(_)
Words(s) ==
    IF s = <<>> THEN <<>>
    ELSE IF IsAlnum(Head(s))
    THEN <<LeadingWord(s)>> \o Words(SubSeq(s, Len(LeadingWord(s)) + 1, Len(s)))
    ELSE Words(Tail(s))

RECURSIVE JoinWithHyphens(_)
JoinWithHyphens(words) ==
    IF words = <<>> THEN <<>>
    ELSE IF Len(words) = 1 THEN words[1]
    ELSE words[1] \o <<"-">> \o JoinWithHyphens(Tail(words))

\* the reference result: the words of the lowercased string joined by single
\* hyphens, cut after maxLength characters
SanitizeReference(str, maxLength) ==
    LET joined == JoinWithHyphens(Words([i \in 1..Len(str) |-> LowerChar(str[i])]))
    IN  [i \in 1..(IF Len(joined) < maxLength THEN Len(joined) ELSE maxLength) |-> joined[i]]

\* C11: for every input string and every maxLength >= 0, sanitize returns the
\* reference result; the result has at most maxLength characters, all of
\* [a-z0-9-], does not start with a hyphen and has no two adjacent hyphens;
\* sanitize('Hello World!!', 30) = 'hello-world', sanitize('___', 10) = '' and
\* sanitize('abcdefghij', 5) = 'abcde'
C11_SanitizeReference ==
    probe.stage \in {"once", "twice"} =>
        LET result == probe.once
        IN  /\ result = SanitizeReference(probe.str, probe.maxLength)
            /\ Len(result) <= probe.maxLength
            /\ \A i \in 1..Len(result) : IsAlnum(result[i]) \/ result[i] = "-"
            /\ result # <<>> => result[1] # "-"
            /\ \A i \in 1..(Len(result) - 1) : ~(result[i] = "-" /\ result[i + 1] = "-")
            /\ probe.str = HelloWorld /\ probe.maxLength = 30 =>
                  result = <<"h","e","l","l","o","-","w","o","r","l","d">>
            /\ probe.str = Underscores /\ probe.maxLength = 10 => result = <<>>
            /\ probe.str = Abcdefghij /\ probe.maxLength = 5 => result = <<"a","b","c","d","e">>

\* sanitize was applied to 'Hello World!!' with maxLength 30 and returned
\* 'hello-world'
C11_Witness ==
    /\ probe.stage = "once"
    /\ probe.str = HelloWorld
    /\ probe.maxLength = 30
    /\ probe.once = <<"h","e","l","l","o","-","w","o","r","l","d">>


----------------------------------------------------------------------------
(* Claims about the gate of fetch (SpecGate) *)

Received(r) == request[r] # None

Responded(r) == response[r] # None

StatusOf(r) == response[r][1].status

MessageOf(r) == response[r][1].body[1].message

\* the request has been answered by the gate itself: no form was parsed, no
\* store call was made and no handler is running
TurnedAway(r, status, message) ==
    /\ pc[r] = "done"
    /\ Responded(r)
    /\ StatusOf(r) = status
    /\ response[r][1].body = Some(GeneralError(message))
    /\ log[r] = <<>>

BadOrigin(r) == OriginOf(request[r][1]) # ALLOWED_ORIGIN

\* C6 as stated: a request whose Origin header is missing or is not the
\* configured allowed origin yields 403
C6_BadOriginAlways403 ==
    \A r \in Reqs : Received(r) /\ BadOrigin(r) => Responded(r) /\ StatusOf(r) = 403

\* C6 as amended: a POST request whose Origin header is missing or is not the
\* allowed origin yields 403 "Origin not allowed", whatever its path and body,
\* before any form parsing, validation or store call; with such an Origin an
\* OPTIONS request yields 204 and a request of another method yields 405
C6_BadOriginPost403 ==
    \A r \in Reqs :
        Received(r) /\ BadOrigin(r) =>
            /\ pc[r] = "done" /\ Responded(r) /\ log[r] = <<>>
            /\ request[r][1].method = "POST" => TurnedAway(r, 403, "Origin not allowed")
            /\ request[r][1].method = "OPTIONS" => StatusOf(r) = 204
            /\ request[r][1].method \notin {"POST", "OPTIONS"} => StatusOf(r) = 405

\* a POST to /upload/tool with a valid form and no Origin header was answered 403
C6_Witness ==
    /\ Received(1)
    /\ request[1][1] = Req("POST", None, "/upload/tool",
                           Form([toolName |-> Text(<<"A", " ">>), toolDescription |-> Text(<<"d">>),
                                 nickname |-> Text(<<"A", " ">>), modelUsed |-> Text(<<"m">>),
                                 toolFile |-> File(FileC, JsType)]))
    /\ TurnedAway(1, 403, "Origin not allowed")

\* C7: a request whose method is neither POST nor OPTIONS yields 405 whatever
\* its body, path and Origin header, with no form parsing and no store call
C7_OtherMethod405 ==
    \A r \in Reqs :
        Received(r) /\ request[r][1].method \notin {"POST", "OPTIONS"} =>
            TurnedAway(r, 405, "Method not allowed")

\* a PUT to /upload/tool from another origin with a body that is no form was
\* answered 405
C7_Witness ==
    /\ Received(1)
    /\ request[1][1] = Req("PUT", Some(OtherOrigin), "/upload/tool", Malformed)
    /\ TurnedAway(1, 405, "Method not allowed")

OtherPath(r) == request[r][1].path \notin {"/upload/tool", "/upload/output"}

\* C8 as stated: a request to any path other than /upload/tool and
\* /upload/output yields 404 "Not found" and runs no upload workflow
C8_OtherPathAlways404 ==
    \A r \in Reqs : Received(r) /\ OtherPath(r) => TurnedAway(r, 404, "Not found")

\* C8 as amended: in index.ts a POST from the allowed origin to any other path
\* yields 404 "Not found"; a request to such a path with another method or
\* origin is answered 204, 405 or 403 by the checks that come first; in both
\* cases no upload workflow runs. The single-endpoint variant never looks at
\* the path: a POST from the allowed origin to any path runs its tool upload
\* and is never answered 404
C8_OtherPath404 ==
    \A r \in Reqs :
        Received(r) /\ OtherPath(r) =>
            LET q == request[r][1]
                passes == q.method = "POST" /\ ~BadOrigin(r)
            IN  /\ worker = "index" =>
                    /\ pc[r] = "done" /\ log[r] = <<>>
                    /\ passes => TurnedAway(r, 404, "Not found")
                    /\ ~passes => StatusOf(r) \in {204, 405, 403}
                /\ worker = "single" /\ passes =>
                    /\ log[r] # <<>> /\ log[r][1].call = "formData"
                    /\ Responded(r) => StatusOf(r) \in {200, 400, 500}

\* index.ts answered 404 "Not found" to a POST from the allowed origin to
\* /other that carried a valid tool form
C8_Witness ==
    /\ worker = "index"
    /\ Received(1)
    /\ request[1][1].path = "/other"
    /\ request[1][1].body = Form([toolName |-> Text(<<"A", " ">>), toolDescription |-> Text(<<"d">>),
                                  nickname |-> Text(<<"A", " ">>), modelUsed |-> Text(<<"m">>),
                                  toolFile |-> File(FileC, JsType)])
    /\ TurnedAway(1, 404, "Not found")

\* C9 as stated: every response carries Content-Type: application/json and the
\* three CORS headers
C9_AllHeadersAlways ==
    \A r \in Reqs :
        Responded(r) =>
            /\ <<"Content-Type", "application/json">> \in response[r][1].headers
            /\ <<"Access-Control-Allow-Origin", ALLOWED_ORIGIN>> \in response[r][1].headers
            /\ <<"Access-Control-Allow-Methods", "POST, OPTIONS">> \in response[r][1].headers
            /\ <<"Access-Control-Allow-Headers", "Content-Type">> \in response[r][1].headers

\* C9 as amended: every response carries the three CORS headers; every
\* response but the 204 preflight has a JSON body and Content-Type:
\* application/json; the 204 has no body and no Content-Type
C9_HeadersButPreflight ==
    \A r \in Reqs :
        Responded(r) =>
            /\ StatusOf(r) \in {204, 200, 400, 403, 404, 405, 500}
            /\ <<"Access-Control-Allow-Origin", ALLOWED_ORIGIN>> \in response[r][1].headers
            /\ <<"Access-Control-Allow-Methods", "POST, OPTIONS">> \in response[r][1].headers
            /\ <<"Access-Control-Allow-Headers", "Content-Type">> \in response[r][1].headers
            /\ StatusOf(r) # 204 =>
                /\ <<"Content-Type", "application/json">> \in response[r][1].headers
                /\ response[r][1].body # None
            /\ StatusOf(r) = 204 =>
                /\ response[r][1].body = None
                /\ \A h \in response[r][1].headers : h[1] # "Content-Type"

\* a preflight was answered 204 with the CORS headers alone
C9_Witness ==
    /\ Received(1)
    /\ request[1][1].method = "OPTIONS"
    /\ Responded(1)
    /\ StatusOf(1) = 204
    /\ Cardinality(response[1][1].headers) = 3


----------------------------------------------------------------------------
(* Claims about the manifest (Spec) *)

ToolsIn(file) == IF file = NoFile THEN <<>> ELSE ToolsOf(file[1].content)

OutputsIn(file) == IF file = NoFile THEN <<>> ELSE OutputsOf(file[1].content)

EntryCount(file) == Len(ToolsIn(file)) + Len(OutputsIn(file))

IsSuffix(a, b) == Len(a) <= Len(b) /\ SubSeq(b, Len(b) - Len(a) + 1, Len(b)) = a

InArray(array, e) == \E i \in 1..Len(array) : array[i] = e

LastEvent(r) == log[r][Len(log[r])]

Calls(r, call) == {i \in 1..Len(log[r]) : log[r][i].call = call}

\* the request has made its manifest PUT and the store has answered
AttemptedWrite(r) ==
    /\ pc[r] = "done"
    /\ log[r] # <<>>
    /\ LastEvent(r).call = "putManifest"

Accepted(r) == AttemptedWrite(r) /\ LastEvent(r).status \in {200, 201}

\* the store has turned the write down for its version token
Conflicted(r) == AttemptedWrite(r) /\ LastEvent(r).status \in {409, 422}

\* the requests that have attempted a manifest write with version token sha
Writers(sha) == {r \in Reqs : AttemptedWrite(r) /\ local[r].sha = sha}

InManifest(e) == InArray(ToolsIn(manifestFile), e) \/ InArray(OutputsIn(manifestFile), e)

\* C1: of the requests that read the manifest at one version (the same sha,
\* or all found it absent) and attempted the manifest write, at most one is
\* accepted, and exactly one as soon as the store has turned one of them down
\* for its token; each of the others responds 500 "internal error" after its
\* one write attempt, with no retry; the manifest holds the accepted writer's
\* entry and none of the others'
C1_OneWriterWins ==
    \A r1 \in Reqs : \A r2 \in Reqs \ {r1} :
        AttemptedWrite(r1) /\ AttemptedWrite(r2) /\ local[r1].sha = local[r2].sha =>
            LET writers == Writers(local[r1].sha)
                winners == {r \in writers : Accepted(r)}
            IN  /\ Cardinality(winners) <= 1
                /\ (\E r \in writers : Conflicted(r)) => Cardinality(winners) = 1
                /\ \A r \in winners :
                    /\ StatusOf(r) = 200
                    /\ InManifest(local[r].entry)
                /\ \A r \in writers \ winners :
                    /\ response[r] = Some(internalError)
                    /\ Cardinality(Calls(r, "putManifest")) = 1
                    /\ ~InManifest(local[r].entry)

\* two requests read the same version; the first write was accepted and the
\* second was turned down with 409
C1_Witness ==
    /\ AttemptedWrite(1) /\ AttemptedWrite(2)
    /\ local[1].sha = local[2].sha
    /\ local[1].sha # None
    /\ Accepted(1)
    /\ LastEvent(2).status = 409
    /\ StatusOf(2) = 500
    /\ InManifest(local[1].entry)
    /\ ~InManifest(local[2].entry)

\* C2: every step keeps the committed entries: the tools and the outputs of
\* the manifest before the step are a suffix of those after it, the manifest
\* file is never removed, a tool upload leaves the outputs as they are and an
\* output upload leaves the tools as they are
C2_NoLostUpdate ==
    [][/\ IsSuffix(ToolsIn(manifestFile), ToolsIn(manifestFile'))
       /\ IsSuffix(OutputsIn(manifestFile), OutputsIn(manifestFile'))
       /\ manifestFile # NoFile => manifestFile' # NoFile
       /\ \A r \in Reqs :
            /\ pc[r] = "updateManifestWithTool_put" /\ pc'[r] = "done" =>
                  OutputsIn(manifestFile') = OutputsIn(manifestFile)
            /\ pc[r] = "updateManifestWithOutput_put" /\ pc'[r] = "done" =>
                  ToolsIn(manifestFile') = ToolsIn(manifestFile)]_vars

\* a tool upload and an output upload have both been committed on top of the
\* tool the manifest began with
C2_Witness ==
    /\ Len(ToolsIn(manifestFile)) = 2
    /\ ToolsIn(manifestFile)[2] = SeedTool
    /\ Len(OutputsIn(manifestFile)) = 1
    /\ \A r \in Reqs : Accepted(r)

\* C3: when a tool upload responds 200, the tools array of the manifest is the
\* one its write replaced (the version it read) with one new element at index
\* 0, whose id is sanitize(nickname, 20), "-", sanitize(file name without .js,
\* 30), "-" and 6 characters of [a-z0-9], and whose url is "tools/" id ".js"
C3_ToolPrepended ==
    [][\A r \in Reqs :
        pc[r] = "updateManifestWithTool_put" /\ response'[r] # None
        /\ response'[r][1].status = 200 =>
            LET fields == request[r][1].body.fields
                name == fields.toolFile.name
                stem == SubSeq(name, 1, Len(name) - 3)
                prefix == sanitizeString(fields.nickname.value, 20) \o <<"-">>
                            \o sanitizeString(stem, 30) \o <<"-">>
                old == ToolsIn(manifestFile)
                new == ToolsIn(manifestFile')
            IN  /\ Len(new) = Len(old) + 1
                /\ Tail(new) = old
                /\ Len(new[1].id) = Len(prefix) + 6
                /\ SubSeq(new[1].id, 1, Len(prefix)) = prefix
                /\ \A i \in (Len(prefix) + 1)..Len(new[1].id) : IsAlnum(new[1].id[i])
                /\ new[1].url = ToolsDir \o new[1].id \o DotJs]_vars

\* the upload of b-c.js by "A " has put the entry a-b-c-999999 before the seed
C3_Witness ==
    /\ Accepted(1)
    /\ StatusOf(1) = 200
    /\ request[1][1].body = Form(ToolFields(Text(NickA), File(FileBC, JsType)))
    /\ Len(ToolsIn(manifestFile)) = 2
    /\ ToolsIn(manifestFile)[2] = SeedTool
    /\ ToolsIn(manifestFile)[1].id = <<"a","-","b","-","c","-","9","9","9","9","9","9">>

\* C4: a manifest change is made by a request in the step in which it
\* responds 200, and adds one entry; a request that responds with another
\* status (204, 400, 403, 404, 405, 500) leaves the manifest as it is; a
\* request responds once, so it changes the manifest at most once
C4_OneChangePerSuccess ==
    [][/\ \A r \in Reqs :
            /\ response[r] = None /\ response'[r] # None =>
                IF response'[r][1].status = 200
                THEN /\ manifestFile' # manifestFile
                     /\ EntryCount(manifestFile') = EntryCount(manifestFile) + 1
                ELSE /\ manifestFile' = manifestFile
                     /\ response'[r][1].status \in {204, 400, 403, 404, 405, 500}
            /\ response[r] # None => response'[r] = response[r] /\ pc'[r] = "done"
       /\ manifestFile' # manifestFile =>
            \E r \in Reqs : /\ response[r] = None /\ response'[r] # None
                            /\ response'[r][1].status = 200]_vars

\* one request has responded 200 and another 500 after its manifest write was
\* turned down
C4_Witness ==
    /\ Accepted(1) /\ StatusOf(1) = 200
    /\ Conflicted(2) /\ StatusOf(2) = 500
    /\ EntryCount(manifestFile) = 1

NoStoreWrite(r) == Calls(r, "putFile") \cup Calls(r, "putManifest") = {}

\* C5: when the store answers the first manifest read of a validated output
\* upload, the request responds 404 "Manifest not found" if the file is
\* absent and 404 "Tool not found" if no tools entry has the id toolId, and
\* goes on to the payload upload otherwise; a request that has responded 404
\* has made no store write, and its step changed neither files nor manifest
C5_NotFoundNoWrite ==
    /\ [](\A r \in Reqs : Responded(r) /\ StatusOf(r) = 404 => pc[r] = "done" /\ NoStoreWrite(r))
    /\ [][\A r \in Reqs :
            pc[r] = "handleOutputUpload_get" /\ pc'[r] # pc[r]
            /\ log'[r][Len(log'[r])].status # 500 =>
                LET toolId == request[r][1].body.fields.toolId.value
                    tools == ToolsIn(manifestFile)
                    known == \E i \in 1..Len(tools) : tools[i].id = toolId
                    notFound == IF manifestFile = NoFile THEN "Manifest not found"
                                ELSE "Tool not found"
                IN  IF manifestFile = NoFile \/ ~known
                    THEN /\ pc'[r] = "done"
                         /\ response'[r] = Some([status |-> 404,
                                body |-> Some([success |-> FALSE, message |-> notFound]),
                                headers |-> {JsonContentType} \cup corsHeaders])
                         /\ Len(log'[r]) = 2
                         /\ files' = files
                         /\ manifestFile' = manifestFile
                    ELSE /\ pc'[r] = "uploadBinaryToGitHub"
                         /\ response'[r] = None]_vars

\* an output upload for an id that no tool of the manifest has was answered
\* 404 "Tool not found" after its one manifest read
C5_Witness ==
    /\ pc[1] = "done"
    /\ StatusOf(1) = 404
    /\ MessageOf(1) = "Tool not found"
    /\ request[1][1].path = "/upload/output"
    /\ request[1][1].body.fields.toolId = Text(UnknownId)
    /\ ToolsIn(manifestFile) # <<>>
    /\ NoStoreWrite(1)
    /\ files = PayloadsOf(manifestFile)


----------------------------------------------------------------------------
(* Claims about validation (SpecGate) *)

\* the request has passed the gate and its form was parsed by the tool upload
ToolUploadParsed(r) ==
    /\ Received(r)
    /\ Gate(request[r][1]) = None
    /\ worker = "index" => request[r][1].path = "/upload/tool"
    /\ request[r][1].body.ok

\* the request has passed the gate and its form was parsed by the output upload
OutputUploadParsed(r) ==
    /\ Received(r)
    /\ Gate(request[r][1]) = None
    /\ worker = "index"
    /\ request[r][1].path = "/upload/output"
    /\ request[r][1].body.ok

FieldOf(r, name) == formDataGet(request[r][1].body.fields, name)

ToolTextFields == {"toolName", "toolDescription", "nickname", "modelUsed"}

\* not a string, or a string with nothing but white space
BlankAfterTrim(v) == v.kind # "text" \/ \A i \in 1..Len(v.value) : v.value[i] = " "

\* C12 as stated: a tool upload in which toolName, toolDescription, nickname
\* or modelUsed is not a string that is non-empty after trimming is answered
\* 400, and every tools entry of the manifest has a non-empty author, name,
\* description and model
C12_NonEmptyAfterTrim ==
    /\ \A r \in Reqs :
        ToolUploadParsed(r) /\ (\E name \in ToolTextFields : BlankAfterTrim(FieldOf(r, name))) =>
            pc[r] = "done" /\ StatusOf(r) = 400
    /\ \A i \in 1..Len(ToolsIn(manifestFile)) :
        LET entry == ToolsIn(manifestFile)[i]
        IN  /\ entry.author # <<>>
            /\ entry.name # <<>>
            /\ entry.description # <<>>
            /\ entry.model # <<>>

\* a tool upload whose toolName and nickname are one space was answered 200,
\* and the manifest holds its entry with an empty name and an empty author
C12_Witness ==
    /\ ToolUploadParsed(1)
    /\ FieldOf(1, "toolName") = Text(<<" ">>)
    /\ FieldOf(1, "nickname") = Text(<<" ">>)
    /\ pc[1] = "done"
    /\ StatusOf(1) = 200
    /\ ToolsIn(manifestFile)[1].name = <<>>
    /\ ToolsIn(manifestFile)[1].author = <<>>
    /\ ToolsIn(manifestFile)[1].id = <<"-","c","-","a","a","a","a","a","a">>

\* the fields of a tool upload the schema turns down: a text field that is
\* no string or the empty string, a toolFile that is no file or has a name
\* that does not end with .js
FailingToolFields(r) ==
    {name \in ToolTextFields :
        FieldOf(r, name).kind # "text" \/ FieldOf(r, name).value = <<>>}
    \cup {name \in {"toolFile"} :
        FieldOf(r, name).kind # "file" \/ ~IsSuffix(DotJs, FieldOf(r, name).name)}

\* the fields of an output upload the schema turns down
FailingOutputFields(r) ==
    {name \in {"toolId"} :
        FieldOf(r, name).kind # "text" \/ FieldOf(r, name).value = <<>>}
    \cup {name \in {"outputFile"} :
        FieldOf(r, name).kind # "file"
        \/ FieldOf(r, name).type \notin {"image/png", "image/jpeg", "image/webp", "image/gif"}}

\* the request was answered 400 with one issue for each field of failing and
\* no other, after parsing the form and without any store call
Answered400With(r, failing) ==
    /\ pc[r] = "done"
    /\ StatusOf(r) = 400
    /\ HasKey(response[r][1].body[1], "issues")
    /\ LET issues == response[r][1].body[1].issues
       IN  /\ {issues[i].path : i \in 1..Len(issues)} = failing
           /\ Len(issues) = Cardinality(failing)
    /\ log[r] = <<Event("formData", 0)>>

\* C13: a tool upload or an output upload with one or more invalid fields is
\* answered 400 with an issues list that holds an issue for every failing
\* field, and makes no store call: no payload write, no manifest read or write
C13_EveryFailingFieldReported ==
    \A r \in Reqs :
        /\ ToolUploadParsed(r) /\ FailingToolFields(r) # {} =>
              Answered400With(r, FailingToolFields(r))
        /\ OutputUploadParsed(r) /\ FailingOutputFields(r) # {} =>
              Answered400With(r, FailingOutputFields(r))

\* a tool upload with no toolName, an empty description, no modelUsed and a
\* file that is not .js was answered 400 with four issues
C13_Witness ==
    /\ ToolUploadParsed(1)
    /\ FailingToolFields(1) = {"toolName", "toolDescription", "modelUsed", "toolFile"}
    /\ Answered400With(1, FailingToolFields(1))
    /\ Len(response[1][1].body[1].issues) = 4


----------------------------------------------------------------------------
(* Claims about the entries of the manifest (Spec) *)

IsToolUpload(r) == Received(r) /\ Gate(request[r][1]) = None /\ request[r][1].path = "/upload/tool"

IsOutputUpload(r) == Received(r) /\ Gate(request[r][1]) = None /\ request[r][1].path = "/upload/output"

DistinctIds(array) ==
    \A i \in 1..Len(array) : \A j \in 1..Len(array) : i # j => array[i].id # array[j].id

\* the store's answers to the calls named call that the request has made
Answers(r, call) == {log[r][i].status : i \in Calls(r, call)}

\* C14: the ids of the entries of the tools array are pairwise distinct in
\* every reachable state; a tool upload whose payload PUT (sent with no sha)
\* the store turns down, as it does when a file exists at the path derived
\* from the id, responds 500 and makes no manifest read and no manifest write
C14_ToolIdsDistinct ==
    /\ DistinctIds(ToolsIn(manifestFile))
    /\ \A r \in Reqs :
        IsToolUpload(r) /\ Answers(r, "putFile") \ {200, 201} # {} =>
            /\ pc[r] = "done"
            /\ response[r] = Some(internalError)
            /\ Calls(r, "getManifest") \cup Calls(r, "putManifest") = {}

\* two tool uploads derived the same id; the first is in the manifest, the
\* payload PUT of the second was answered 422 and it responded 500
C14_Witness ==
    /\ IsToolUpload(1) /\ IsToolUpload(2)
    /\ pc[1] = "done" /\ pc[2] = "done"
    /\ local[1].id = local[2].id
    /\ Accepted(1)
    /\ InArray(ToolsIn(manifestFile), local[1].entry)
    /\ log[2] = <<Event("formData", 0), Event("putFile", 422)>>
    /\ StatusOf(2) = 500

\* C15 as stated: the ids of the entries of the outputs array are pairwise
\* distinct in every reachable state, whatever the file names, media types and
\* random strings of the uploads that made them
C15_OutputIdsDistinct == DistinctIds(OutputsIn(manifestFile))

\* two output uploads of a file named p.png, one of type image/png and one of
\* type image/gif, drew the same random string: both were answered 200 and
\* the outputs array holds two entries with one id and two urls
C15_Witness ==
    /\ IsOutputUpload(1) /\ IsOutputUpload(2)
    /\ Accepted(1) /\ Accepted(2)
    /\ StatusOf(1) = 200 /\ StatusOf(2) = 200
    /\ Len(OutputsIn(manifestFile)) = 2
    /\ OutputsIn(manifestFile)[1].id = OutputsIn(manifestFile)[2].id
    /\ OutputsIn(manifestFile)[1].url # OutputsIn(manifestFile)[2].url

\* C16: in every reachable state, for every entry o of the outputs array
\* there is an entry t of the tools array with t.id = o.toolId and
\* t.url = o.toolUrl, under every interleaving of the uploads
C16_OutputsReferToTools ==
    \A i \in 1..Len(OutputsIn(manifestFile)) :
        \E j \in 1..Len(ToolsIn(manifestFile)) :
            /\ ToolsIn(manifestFile)[j].id = OutputsIn(manifestFile)[i].toolId
            /\ ToolsIn(manifestFile)[j].url = OutputsIn(manifestFile)[i].toolUrl

\* from a manifest with no tool, a tool upload and then an output upload for
\* the tool it added were both committed
C16_Witness ==
    /\ Len(ToolsIn(manifestFile)) = 1
    /\ ToolsIn(manifestFile)[1].uploadedAt > 0
    /\ Len(OutputsIn(manifestFile)) = 1
    /\ OutputsIn(manifestFile)[1].toolId = ToolsIn(manifestFile)[1].id
    /\ OutputsIn(manifestFile)[1].toolUrl = ToolsDir \o SeedId \o DotJs
    /\ \A r \in Reqs : Accepted(r)

\* C17 as stated: in every reachable state both arrays are in
\* most-recent-first order: for entries at indices i < j of tools (of
\* outputs), uploadedAt (createdAt) of entry i is not earlier than that of
\* entry j, also when requests run concurrently
C17_MostRecentFirst ==
    /\ \A i \in 1..Len(ToolsIn(manifestFile)) : \A j \in 1..Len(ToolsIn(manifestFile)) :
          i < j => ToolsIn(manifestFile)[i].uploadedAt >= ToolsIn(manifestFile)[j].uploadedAt
    /\ \A i \in 1..Len(OutputsIn(manifestFile)) : \A j \in 1..Len(OutputsIn(manifestFile)) :
          i < j => OutputsIn(manifestFile)[i].createdAt >= OutputsIn(manifestFile)[j].createdAt

\* two concurrent tool uploads were both answered 200, and the entry at index
\* 0 carries the earlier uploadedAt: its request read the clock first and
\* read the manifest after the other had written it
C17_Witness ==
    /\ IsToolUpload(1) /\ IsToolUpload(2)
    /\ Accepted(1) /\ Accepted(2)
    /\ StatusOf(1) = 200 /\ StatusOf(2) = 200
    /\ Len(ToolsIn(manifestFile)) = 2
    /\ ToolsIn(manifestFile)[1] = local[1].entry
    /\ ToolsIn(manifestFile)[2] = local[2].entry
    /\ local[1].entry.uploadedAt < local[2].entry.uploadedAt


----------------------------------------------------------------------------
(* Claims about the payload files (Spec) *)

\* the path of the request's payload file, relative to the namespace
PayloadPathOf(r) ==
    (IF IsToolUpload(r) THEN ToolsDir ELSE OutputsDir) \o local[r].finalFilename

\* the request has stored its payload file and has responded 500
FailedAfterPayload(r) ==
    /\ pc[r] = "done"
    /\ Answers(r, "putFile") \cap {200, 201} # {}
    /\ StatusOf(r) = 500

\* C18: a request that has stored its payload file and whose manifest read or
\* manifest write that follows fails (store error or version conflict)
\* responds 500; its payload file stays in the store and no manifest entry
\* refers to it; the request makes no further call, and no step removes a
\* file from the store
C18_NoRollback ==
    /\ [](\A r \in Reqs :
            /\ FailedAfterPayload(r) =>
                /\ response[r] = Some(internalError)
                /\ LastEvent(r).call \in {"getManifest", "putManifest"}
                /\ LastEvent(r).status \in {409, 422, 500}
                /\ Calls(r, "putFile") = {Len(log[r]) - 1} \/ Calls(r, "putFile") = {Len(log[r]) - 2}
                /\ PayloadPathOf(r) \in files
                /\ PayloadPathOf(r) \notin PayloadsOf(manifestFile)
            /\ pc[r] = "done" /\ Answers(r, "putFile") \cap {200, 201} # {} =>
                StatusOf(r) \in {200, 500})
    /\ [][/\ files \subseteq files'
          /\ \A r \in Reqs : pc[r] = "done" => log'[r] = log[r]]_vars

\* a tool upload stored its file, read the manifest, had its manifest write
\* turned down with 409 and responded 500: the file is in the store and no
\* entry of the manifest refers to it
C18_Witness ==
    /\ IsToolUpload(1)
    /\ log[1] = <<Event("formData", 0), Event("putFile", 201),
                  Event("getManifest", 200), Event("putManifest", 409)>>
    /\ response[1] = Some(internalError)
    /\ PayloadPathOf(1) \in files
    /\ PayloadPathOf(1) \notin PayloadsOf(manifestFile)

\* C19: in every reachable state every entry of the manifest, tool or
\* output, has its payload file in the store at the path entry.url; within a
\* request the payload write has been answered with success before the read
\* of the manifest read-modify-write is made
C19_EntriesHaveFiles ==
    /\ PayloadsOf(manifestFile) \subseteq files
    /\ \A r \in Reqs :
        /\ \A i \in Calls(r, "putManifest") :
              /\ log[r][i - 1].call = "getManifest"
              /\ log[r][i - 2] \in {Event("putFile", 200), Event("putFile", 201)}
        /\ pc[r] \in {"updateManifestWithTool_get", "updateManifestWithTool_put",
                      "updateManifestWithOutput_get", "updateManifestWithOutput_put"} =>
              /\ PayloadPathOf(r) \in files
              /\ local[r].entry.url = PayloadPathOf(r)

\* a tool upload and an output upload were committed on top of the seed
\* tool: the store holds the three files the entries refer to
C19_Witness ==
    /\ Len(ToolsIn(manifestFile)) = 2
    /\ Len(OutputsIn(manifestFile)) = 1
    /\ Cardinality(PayloadsOf(manifestFile)) = 3
    /\ PayloadsOf(manifestFile) = files


----------------------------------------------------------------------------
(* Claims about the two manifest reads of an output upload (Spec) *)

CurrentSha == IF manifestFile = NoFile THEN None ELSE Some(manifestFile[1].sha)

\* C20: the manifest write of an output upload carries the sha of the second
\* manifest read, made after the payload was stored, not the sha of the tool
\* lookup's read: the second read takes the sha and the content the file has
\* then, whatever was committed since the lookup; the write is accepted when
\* the file still has that sha and then keeps all the file held, and it is
\* turned down for its token exactly when the file has changed since the
\* second read
C20_SecondReadToken ==
    [][\A r \in Reqs :
        /\ pc[r] = "updateManifestWithOutput_get"
           /\ pc'[r] = "updateManifestWithOutput_put" =>
              /\ Calls(r, "putFile") # {}
              /\ local'[r].sha = CurrentSha
              /\ local'[r].manifest.tools = ToolsIn(manifestFile)
              /\ local'[r].manifest.outputs = <<local[r].entry>> \o OutputsIn(manifestFile)
        /\ pc[r] = "updateManifestWithOutput_put" /\ pc'[r] = "done"
           /\ log'[r][Len(log'[r])].status # 500 =>
              /\ response'[r][1].status = 200 <=> CurrentSha = local[r].sha
              /\ response'[r][1].status = 500 <=> CurrentSha # local[r].sha
              /\ response'[r][1].status = 200 =>
                    /\ ToolsIn(manifestFile') = ToolsIn(manifestFile)
                    /\ OutputsIn(manifestFile') = <<local[r].entry>> \o OutputsIn(manifestFile)]_vars

\* a tool upload was committed between the tool lookup and the second read of
\* an output upload: the output upload was answered 200 with the sha of its
\* second read, and the manifest holds both the new tool and the output
C20_Witness ==
    /\ IsToolUpload(1) /\ IsOutputUpload(2)
    /\ Accepted(1) /\ Accepted(2)
    /\ StatusOf(1) = 200 /\ StatusOf(2) = 200
    /\ Some(local[2].currentManifest.sha) # local[2].sha
    /\ local[2].sha = Some(Sha(local[1].manifest))
    /\ InArray(ToolsIn(manifestFile), local[1].entry)
    /\ InArray(OutputsIn(manifestFile), local[2].entry)


----------------------------------------------------------------------------
(* Claims about termination and store calls (SpecLive) *)

CallCount(r, call) == Cardinality(Calls(r, call))

\* the store has turned down a write of the request for its version token
HadConflict(r) ==
    \E i \in 1..Len(log[r]) :
        log[r][i].call \in {"putFile", "putManifest"} /\ log[r][i].status \in {409, 422}

\* C21: when every store call returns in the end, every request received gets
\* a response, and only one: once given, the response does not change and the
\* request makes no further call. There is no retry: a tool upload makes at
\* most one payload write, one manifest read and one manifest write, an output
\* upload at most two manifest reads, one payload write and one manifest
\* write, and a request whose write the store turned down for its version
\* token has made no call after that one
C21_RespondsOnceNoRetry ==
    /\ \A r \in Reqs : Received(r) ~> Responded(r)
    /\ [](\A r \in Reqs :
            /\ CallCount(r, "putFile") <= 1
            /\ CallCount(r, "putManifest") <= 1
            /\ CallCount(r, "getManifest") <= (IF IsOutputUpload(r) THEN 2 ELSE 1)
            /\ CallCount(r, "formData") <= 1
            /\ Received(r) /\ ~IsToolUpload(r) /\ ~IsOutputUpload(r) => log[r] = <<>>
            /\ HadConflict(r) =>
                /\ LastEvent(r).status \in {409, 422}
                /\ pc[r] = "done"
                /\ response[r] = Some(internalError)
            /\ Responded(r) <=> pc[r] = "done")
    /\ [][\A r \in Reqs :
            response[r] # None => response'[r] = response[r] /\ log'[r] = log[r]]_vars

\* an output upload made its two manifest reads, its payload write and one
\* manifest write, which was turned down with 409, and responded 500
C21_Witness ==
    /\ IsOutputUpload(2)
    /\ log[2] = <<Event("formData", 0), Event("getManifest", 200), Event("putFile", 201),
                  Event("getManifest", 200), Event("putManifest", 409)>>
    /\ pc[2] = "done"
    /\ response[2] = Some(internalError)


----------------------------------------------------------------------------
(* Claims about store failures (Spec) *)

\* the store's answer makes the call throw: a read answered neither 200 nor
\* 404, a write answered outside 200..299
IsFailure(event) ==
    IF event.call = "getManifest" THEN event.status \notin {200, 404}
    ELSE event.call \in {"putFile", "putManifest"} /\ event.status \notin 200..299

\* C22: in both workflows a manifest read that the store answers with 404 is
\* taken as an absent file and does not end in 500: the read-modify-write of
\* either workflow goes on to write a new manifest with no sha, and the tool
\* lookup of an output upload answers 404 "Manifest not found". Every other
\* answer that is not a success, to a read, a payload write or a manifest
\* write, a version conflict included, ends the workflow in that step: the
\* request responds 500 with the one fixed message and makes no further call
C22_NotFoundIsAbsent ==
    /\ [](\A r \in Reqs :
            Responded(r) /\ StatusOf(r) = 500 =>
                /\ response[r] = Some(internalError)
                /\ MessageOf(r) = "Internal server error. Please try again."
                /\ pc[r] = "done"
                /\ log[r] # <<>>
                /\ LastEvent(r).call = "formData" \/ IsFailure(LastEvent(r))
                /\ \A i \in 1..(Len(log[r]) - 1) : ~IsFailure(log[r][i]))
    /\ [][\A r \in Reqs :
            Len(log'[r]) = Len(log[r]) + 1 /\ log'[r][Len(log'[r])].call # "formData" =>
                LET event == log'[r][Len(log'[r])]
                IN  /\ IsFailure(event) =>
                        /\ pc'[r] = "done"
                        /\ response'[r] = Some(internalError)
                        /\ manifestFile' = manifestFile
                        /\ files' = files
                    /\ ~IsFailure(event) =>
                        \/ response'[r] = None
                        \/ response'[r][1].status \in {200, 404}
                    /\ event = Event("getManifest", 404) =>
                        IF pc[r] = "handleOutputUpload_get"
                        THEN /\ response'[r] # None
                             /\ response'[r][1].status = 404
                             /\ response'[r][1].body[1].message = "Manifest not found"
                        ELSE /\ response'[r] = None
                             /\ pc'[r] \in {"updateManifestWithTool_put",
                                            "updateManifestWithOutput_put"}
                             /\ local'[r].sha = None
                             /\ local'[r].manifest \in
                                   {[tools |-> <<local[r].entry>>, outputs |-> <<>>],
                                    [tools |-> <<>>, outputs |-> <<local[r].entry>>]}]_vars

\* a tool upload found no manifest (404), wrote a new one and was answered
\* 200, while another failed at its payload write and was answered 500
C22_Witness ==
    /\ IsToolUpload(1) /\ IsToolUpload(2)
    /\ log[1] = <<Event("formData", 0), Event("putFile", 201),
                  Event("getManifest", 404), Event("putManifest", 201)>>
    /\ StatusOf(1) = 200
    /\ ToolsIn(manifestFile) = <<local[1].entry>>
    /\ log[2] = <<Event("formData", 0), Event("putFile", 500)>>
    /\ response[2] = Some(internalError)


----------------------------------------------------------------------------
(* Claims about a missing manifest or tools array (SpecGate) *)

\* the manifest a tool upload is to write when it defaults: a new manifest
\* with both arrays when the file is absent, and otherwise the manifest read
\* with the entry put before its tools, none counting as empty
Defaulted(file, entry) ==
    IF file = NoFile THEN [tools |-> <<entry>>, outputs |-> <<>>]
    ELSE SetKey(file[1].content, "tools", <<entry>> \o ToolsOf(file[1].content))

\* the request waits for the answer to its manifest write
AtManifestWrite(r) == pc[r] \in {"updateManifestWithTool_put", "updateManifest_put"}

\* the request ended on a manifest read that the store answered with 200
EndedOnRead(r) ==
    /\ pc[r] = "done"
    /\ log[r] # <<>>
    /\ LastEvent(r) = Event("getManifest", 200)

\* C23 as stated: in index.ts and in the single-endpoint variant, a tool
\* upload that finds no manifest writes {tools: [entry], outputs: []} with no
\* sha, and one that finds a manifest with no tools array writes it with
\* tools = [entry] and everything else as it was
C23_DefaultsInBothWorkers ==
    \A r \in Reqs :
        /\ ToolUploadParsed(r) /\ AtManifestWrite(r) =>
              /\ local[r].sha = CurrentSha
              /\ local[r].manifest = Defaulted(manifestFile, local[r].entry)
        /\ ToolUploadParsed(r) => ~EndedOnRead(r)
        /\ ToolUploadParsed(r) /\ Accepted(r) => manifestFile = StoredFile(local[r].manifest)

\* C23 as amended: index.ts defaults as stated. The single-endpoint variant
\* writes a new manifest as {tools: [entry]}, with no outputs key, when the
\* file is absent, and when the manifest has no tools array it responds 500
\* after the read and leaves the manifest as it is; with a tools array both
\* put the entry first and keep everything else
C23_DefaultsInIndexOnly ==
    \A r \in Reqs :
        /\ ToolUploadParsed(r) /\ AtManifestWrite(r) =>
              /\ local[r].sha = CurrentSha
              /\ worker = "index" =>
                    local[r].manifest = Defaulted(manifestFile, local[r].entry)
              /\ worker = "single" =>
                    /\ manifestFile # NoFile => HasKey(manifestFile[1].content, "tools")
                    /\ local[r].manifest =
                          IF manifestFile = NoFile THEN [tools |-> <<local[r].entry>>]
                          ELSE Defaulted(manifestFile, local[r].entry)
        /\ ToolUploadParsed(r) /\ EndedOnRead(r) =>
              /\ worker = "single"
              /\ ~HasKey(manifestFile[1].content, "tools")
              /\ response[r] = Some(internalError)
        /\ ToolUploadParsed(r) /\ Accepted(r) =>
              /\ manifestFile = StoredFile(local[r].manifest)
              /\ ToolsIn(manifestFile)[1] = local[r].entry
              /\ worker = "single" /\ LastEvent(r).status = 201 =>
                    ~HasKey(manifestFile[1].content, "outputs")

\* index.ts read a manifest with a title and no tools array, and wrote it back
\* with the title, the outputs and tools = [entry]
C23_Witness ==
    /\ worker = "index"
    /\ ToolUploadParsed(1)
    /\ Accepted(1)
    /\ StatusOf(1) = 200
    /\ local[1].sha = Some(Sha(NoToolsManifest))
    /\ manifestFile = StoredFile([title |-> <<"g">>, outputs |-> <<>>,
                                  tools |-> <<local[1].entry>>])


====
